---- MODULE Spec2Model ----
(***************************************************************************)
(* A model of src/files/app.py: the App run loop and its signal handling.  *)
(*                                                                         *)
(* One Python thread executes run().  A signal handler installed with      *)
(* signal.signal() is called by the interpreter between two bytecodes of   *)
(* that thread (or when a blocking call is interrupted), on top of the     *)
(* frame that was executing; the interrupted frame resumes when the        *)
(* handler returns.  The model keeps the interrupted position in pc and    *)
(* the active handler calls in hstack: the main frame moves only while     *)
(* hstack is empty.                                                        *)
(***************************************************************************)
EXTENDS Integers, Sequences, FiniteSets

VARIABLES
    running,    \* App.running
    counter,    \* App.counter
    pc,         \* the position of the main frame in run() / __main__
    acc,        \* the value loaded by `self.counter += 1` before it is stored
    remaining,  \* time units time.sleep(60) still has to wait
    hstack,     \* the active signal_handler calls, innermost last
    handlers,   \* the process-wide signal dispositions
    log,        \* the records emitted through logger, oldest first
    exitCode,   \* the exit status of the process, -1 while it is alive
    now,        \* the clock: time units waited since the process started
    prev        \* the fields of the App instances whose run() has ended

vars == <<running, counter, pc, acc, remaining, hstack, handlers, log, exitCode,
          now, prev>>

----------------------------------------------------------------------------
(* Bounds of the model *)

\* the loop condition is not evaluated to true any more once counter = MaxTicks
MaxTicks == 3

\* at most this many signals are handled by signal_handler in one behaviour
MaxSignals == 2

----------------------------------------------------------------------------
(* Program constants *)

\* time.sleep(60)
Interval == 60

SIGINT == 2

SIGTERM == 15

Signals == {SIGINT, SIGTERM}

\* what the unit of work may raise: a subclass of Exception, or KeyboardInterrupt
Raisable == {"Exception", "KeyboardInterrupt"}

----------------------------------------------------------------------------
(* Logging *)

Record(level, msg, arg) == [level |-> level, msg |-> msg, arg |-> arg]

Emit(level, msg, arg) == log' = Append(log, Record(level, msg, arg))

\* the number of records of log with the given message
Count(msg) == Cardinality({i \in DOMAIN log : log[i].msg = msg})

\* the number of records of log with the given severity
CountLevel(level) == Cardinality({i \in DOMAIN log : log[i].level = level})

----------------------------------------------------------------------------
(* Positions *)

\* the statements of the try block of run()
InTry == {"check", "load", "store", "work", "logic", "sleep"}

\* the positions inside run()
InRun == {"reg_term", "reg_int", "log_start",
          "env_exec", "env_version", "env_venv", "env_cwd",
          "except_kbd", "except_err", "finally"} \cup InTry

\* the signals signal_handler has been called for so far
NumHandled == Len(hstack) + Count("Received signal")

----------------------------------------------------------------------------
(* App.__init__ and the state of a fresh interpreter *)

Init ==
    /\ running = TRUE
    /\ counter = 0
    /\ pc = "reg_term"
    /\ acc = 0
    /\ remaining = 0
    /\ hstack = <<>>
    /\ handlers = [s \in Signals |->
                     IF s = SIGINT THEN "default_int_handler" ELSE "SIG_DFL"]
    /\ log = <<>>
    /\ exitCode = -1
    /\ now = 0
    /\ prev = <<>>

----------------------------------------------------------------------------
(* run(): the main frame *)

\* a variant of RegTerm: SIGTERM keeps the disposition it had
RegTermMissing ==
    /\ pc = "reg_term" /\ hstack = <<>>
    /\ pc' = "reg_int"
    /\ UNCHANGED <<running, counter, acc, remaining, hstack, handlers, log, exitCode, now, prev>>

\* signal.signal(signal.SIGTERM, self.signal_handler)
RegTerm ==
    /\ pc = "reg_term" /\ hstack = <<>>
    /\ handlers' = [handlers EXCEPT ![SIGTERM] = "signal_handler"]
    /\ pc' = "reg_int"
    /\ UNCHANGED <<running, counter, acc, remaining, hstack, log, exitCode, now, prev>>

\* a variant of RegInt: SIGINT keeps the disposition it had
RegIntMissing ==
    /\ pc = "reg_int" /\ hstack = <<>>
    /\ pc' = "log_start"
    /\ UNCHANGED <<running, counter, acc, remaining, hstack, handlers, log, exitCode, now, prev>>

\* signal.signal(signal.SIGINT, self.signal_handler)
RegInt ==
    /\ pc = "reg_int" /\ hstack = <<>>
    /\ handlers' = [handlers EXCEPT ![SIGINT] = "signal_handler"]
    /\ pc' = "log_start"
    /\ UNCHANGED <<running, counter, acc, remaining, hstack, log, exitCode, now, prev>>

\* logger.info("Starting App service...")
LogStart ==
    /\ pc = "log_start" /\ hstack = <<>>
    /\ Emit("INFO", "Starting App service...", 0)
    /\ pc' = "env_exec"
    /\ UNCHANGED <<running, counter, acc, remaining, hstack, handlers, exitCode, now, prev>>

EnvMsg ==
    [env_exec |-> "Python executable", env_version |-> "Python version",
     env_venv |-> "Virtual environment", env_cwd |-> "Working directory"]

EnvNext ==
    [env_exec |-> "env_version", env_version |-> "env_venv",
     env_venv |-> "env_cwd", env_cwd |-> "check"]

\* self.log_environment_info(): four logger.info calls, then the try block
LogEnvironmentInfo ==
    /\ pc \in DOMAIN EnvMsg /\ hstack = <<>>
    /\ Emit("INFO", EnvMsg[pc], 0)
    /\ pc' = EnvNext[pc]
    /\ UNCHANGED <<running, counter, acc, remaining, hstack, handlers, exitCode, now, prev>>

\* a variant of LoopCheck: the loop ends by itself after its first tick
LoopCheckOnce ==
    /\ pc = "check" /\ hstack = <<>>
    /\ pc' = IF running /\ counter < 1 THEN "load" ELSE "finally"
    /\ UNCHANGED <<running, counter, acc, remaining, hstack, handlers, log, exitCode, now, prev>>

\* a variant of LoopCheck: the first tick is run without reading the flag
LoopCheckDoWhile ==
    /\ pc = "check" /\ hstack = <<>>
    /\ running => counter < MaxTicks
    /\ pc' = IF running \/ counter = 0 THEN "load" ELSE "finally"
    /\ UNCHANGED <<running, counter, acc, remaining, hstack, handlers, log, exitCode, now, prev>>

\* a variant of LoopCheck: while True
LoopCheckForever ==
    /\ pc = "check" /\ hstack = <<>>
    /\ counter < MaxTicks
    /\ pc' = "load"
    /\ UNCHANGED <<running, counter, acc, remaining, hstack, handlers, log, exitCode, now, prev>>

\* while self.running:
LoopCheck ==
    /\ pc = "check" /\ hstack = <<>>
    /\ running => counter < MaxTicks
    /\ pc' = IF running THEN "load" ELSE "finally"
    /\ UNCHANGED <<running, counter, acc, remaining, hstack, handlers, log, exitCode, now, prev>>

\* self.counter += 1, the read
IncLoad ==
    /\ pc = "load" /\ hstack = <<>>
    /\ acc' = counter
    /\ pc' = "store"
    /\ UNCHANGED <<running, counter, remaining, hstack, handlers, log, exitCode, now, prev>>

\* self.counter += 1, the write
IncStore ==
    /\ pc = "store" /\ hstack = <<>>
    /\ counter' = acc + 1
    /\ pc' = "work"
    /\ UNCHANGED <<running, acc, remaining, hstack, handlers, log, exitCode, now, prev>>

\* a variant of LogTick: the tick sets the flag again
LogTickRearms ==
    /\ pc = "work" /\ hstack = <<>>
    /\ Emit("INFO", "Application running", counter)
    /\ running' = TRUE
    /\ pc' = "logic"
    /\ UNCHANGED <<counter, acc, remaining, hstack, handlers, exitCode, now, prev>>

\* logger.info(f"Application running - Counter: {self.counter}, Time: ...")
LogTick ==
    /\ pc = "work" /\ hstack = <<>>
    /\ Emit("INFO", "Application running", counter)
    /\ pc' = "logic"
    /\ UNCHANGED <<running, counter, acc, remaining, hstack, handlers, exitCode, now, prev>>

\* the application logic of the tick completes and time.sleep(60) is entered
LogicDone ==
    /\ pc = "logic" /\ hstack = <<>>
    /\ pc' = "sleep"
    /\ remaining' = Interval
    /\ UNCHANGED <<running, counter, acc, hstack, handlers, log, exitCode, now, prev>>

\* where an exception raised inside the try block is caught
Catch(kind) == IF kind = "KeyboardInterrupt" THEN "except_kbd" ELSE "except_err"

\* the application logic of the tick raises
LogicRaise ==
    /\ pc = "logic" /\ hstack = <<>>
    /\ \E kind \in Raisable : pc' = Catch(kind)
    /\ UNCHANGED <<running, counter, acc, remaining, hstack, handlers, log, exitCode, now, prev>>

\* time.sleep(60): one time unit of the wait passes
SleepTick ==
    /\ pc = "sleep" /\ hstack = <<>>
    /\ remaining > 0
    /\ remaining' = remaining - 1
    /\ now' = now + 1
    /\ UNCHANGED <<running, counter, pc, acc, hstack, handlers, log, exitCode, prev>>

\* a variant of SleepReturn: the next tick starts without reading the flag
SleepReturnSkipsCheck ==
    /\ pc = "sleep" /\ hstack = <<>>
    /\ remaining = 0
    /\ counter < MaxTicks
    /\ pc' = "load"
    /\ UNCHANGED <<running, counter, acc, remaining, hstack, handlers, log, exitCode, now, prev>>

\* a variant of SleepReturn: the wait returns before the interval has passed
SleepReturnEarly ==
    /\ pc = "sleep" /\ hstack = <<>>
    /\ pc' = "check"
    /\ UNCHANGED <<running, counter, acc, remaining, hstack, handlers, log, exitCode, now, prev>>

\* time.sleep(60) returns once the whole interval has passed
SleepReturn ==
    /\ pc = "sleep" /\ hstack = <<>>
    /\ remaining = 0
    /\ pc' = "check"
    /\ UNCHANGED <<running, counter, acc, remaining, hstack, handlers, log, exitCode, now, prev>>

\* except KeyboardInterrupt: logger.info("Received keyboard interrupt")
ExceptKeyboardInterrupt ==
    /\ pc = "except_kbd" /\ hstack = <<>>
    /\ Emit("INFO", "Received keyboard interrupt", 0)
    /\ pc' = "finally"
    /\ UNCHANGED <<running, counter, acc, remaining, hstack, handlers, exitCode, now, prev>>

\* a variant of ExceptException: the except clause clears the flag
ExceptExceptionStops ==
    /\ pc = "except_err" /\ hstack = <<>>
    /\ Emit("ERROR", "Unexpected error", 0)
    /\ running' = FALSE
    /\ pc' = "finally"
    /\ UNCHANGED <<counter, acc, remaining, hstack, handlers, exitCode, now, prev>>

\* a variant of ExceptException: the failed tick is retried
ExceptExceptionRetry ==
    /\ pc = "except_err" /\ hstack = <<>>
    /\ Emit("ERROR", "Unexpected error", 0)
    /\ pc' = "check"
    /\ UNCHANGED <<running, counter, acc, remaining, hstack, handlers, exitCode, now, prev>>

\* except Exception as e: logger.error(f"Unexpected error: {e}", exc_info=True)
ExceptException ==
    /\ pc = "except_err" /\ hstack = <<>>
    /\ Emit("ERROR", "Unexpected error", 0)
    /\ pc' = "finally"
    /\ UNCHANGED <<running, counter, acc, remaining, hstack, handlers, exitCode, now, prev>>

\* finally: logger.info("App service stopped"), and run() returns
Finally ==
    /\ pc = "finally" /\ hstack = <<>>
    /\ Emit("INFO", "App service stopped", 0)
    /\ pc' = "returned"
    /\ UNCHANGED <<running, counter, acc, remaining, hstack, handlers, exitCode, now, prev>>

\* a variant of ProcessExit: a logged error is reported in the exit status
ProcessExitDistinct ==
    /\ pc = "returned" /\ hstack = <<>>
    /\ pc' = "exited"
    /\ exitCode' = IF CountLevel("ERROR") > 0 THEN 1 ELSE 0
    /\ UNCHANGED <<running, counter, acc, remaining, hstack, handlers, log, now, prev>>

\* app.run() was the last statement of __main__: the interpreter exits with 0
ProcessExit ==
    /\ pc = "returned" /\ hstack = <<>>
    /\ pc' = "exited"
    /\ exitCode' = 0
    /\ UNCHANGED <<running, counter, acc, remaining, hstack, handlers, log, now, prev>>

\* a KeyboardInterrupt nothing caught ends the interpreter (status 130)
Uncaught ==
    /\ pc = "propagated" /\ hstack = <<>>
    /\ pc' = "exited"
    /\ exitCode' = 130
    /\ UNCHANGED <<running, counter, acc, remaining, hstack, handlers, log, now, prev>>

----------------------------------------------------------------------------
(* signal_handler *)

Top == hstack[Len(hstack)]

Pop == SubSeq(hstack, 1, Len(hstack) - 1)

\* logger.info(f"Received signal {signum}, shutting down gracefully...")
HandlerLog ==
    /\ hstack # <<>> /\ Top.at = "log"
    /\ Emit("INFO", "Received signal", Top.signum)
    /\ hstack' = [hstack EXCEPT ![Len(hstack)].at = "set"]
    /\ UNCHANGED <<running, counter, pc, acc, remaining, handlers, exitCode, now, prev>>

\* a variant of HandlerSet: the handler returns without clearing the flag
HandlerSetMissing ==
    /\ hstack # <<>> /\ Top.at = "set"
    /\ hstack' = Pop
    /\ UNCHANGED <<running, counter, pc, acc, remaining, handlers, log, exitCode, now, prev>>

\* a variant of HandlerSet: the handler flips the flag
HandlerSetToggle ==
    /\ hstack # <<>> /\ Top.at = "set"
    /\ running' = ~running
    /\ hstack' = Pop
    /\ UNCHANGED <<counter, pc, acc, remaining, handlers, log, exitCode, now, prev>>

\* a variant of HandlerSet: the handler counts the signal in App.counter
HandlerSetCounting ==
    /\ hstack # <<>> /\ Top.at = "set"
    /\ running' = FALSE
    /\ counter' = counter + 1
    /\ hstack' = Pop
    /\ UNCHANGED <<pc, acc, remaining, handlers, log, exitCode, now, prev>>

\* a variant of HandlerSet: the handler ends with sys.exit(0), which unwinds
\* the interrupted frame to its finally clause
HandlerSetExits ==
    /\ hstack # <<>> /\ Top.at = "set"
    /\ running' = FALSE
    /\ hstack' = <<>>
    /\ pc' = IF pc \in InTry THEN "finally" ELSE pc
    /\ UNCHANGED <<counter, acc, remaining, handlers, log, exitCode, now, prev>>

\* self.running = False, and the handler returns to the frame it interrupted
HandlerSet ==
    /\ hstack # <<>> /\ Top.at = "set"
    /\ running' = FALSE
    /\ hstack' = Pop
    /\ UNCHANGED <<counter, pc, acc, remaining, handlers, log, exitCode, now, prev>>

----------------------------------------------------------------------------
(* Signal delivery *)

\* the interpreter calls the Python handler registered for sig
CallHandler(sig) ==
    /\ handlers[sig] = "signal_handler"
    /\ NumHandled < MaxSignals
    /\ hstack' = Append(hstack, [at |-> "log", signum |-> sig])
    /\ UNCHANGED <<running, counter, pc, acc, remaining, handlers, log, exitCode, now, prev>>

\* signal.default_int_handler raises KeyboardInterrupt in the running frame
RaiseKeyboardInterrupt(sig) ==
    /\ handlers[sig] = "default_int_handler"
    /\ hstack' = <<>>
    /\ pc' = IF pc \in InTry THEN Catch("KeyboardInterrupt") ELSE "propagated"
    /\ UNCHANGED <<running, counter, acc, remaining, handlers, log, exitCode, now, prev>>

\* SIG_DFL for SIGTERM: the process is terminated by the signal (status 143)
DefaultTerminate(sig) ==
    /\ handlers[sig] = "SIG_DFL"
    /\ hstack' = <<>>
    /\ pc' = "killed"
    /\ exitCode' = 128 + sig
    /\ UNCHANGED <<running, counter, acc, remaining, handlers, log, now, prev>>

\* SIGTERM or SIGINT arrives while the process is inside run()
Deliver ==
    /\ pc \in InRun
    /\ \E sig \in Signals :
          \/ CallHandler(sig)
          \/ RaiseKeyboardInterrupt(sig)
          \/ DefaultTerminate(sig)

----------------------------------------------------------------------------
(* Specifications *)

Main ==
    \/ RegTerm \/ RegInt \/ LogStart \/ LogEnvironmentInfo
    \/ LoopCheck \/ IncLoad \/ IncStore \/ LogTick \/ LogicDone \/ LogicRaise
    \/ SleepReturn
    \/ ExceptKeyboardInterrupt \/ ExceptException \/ Finally
    \/ ProcessExit \/ Uncaught

Handler == HandlerLog \/ HandlerSet

Next == Main \/ Handler \/ SleepTick \/ Deliver

Spec == Init /\ [][Next]_vars

\* the interpreter keeps executing the frame on top, and time passes
LiveSpec == Spec /\ WF_vars(Main) /\ WF_vars(Handler) /\ WF_vars(SleepTick)

----------------------------------------------------------------------------
(* A second App instance in the same process *)

\* `app = App(); app.run()` is executed again after run() has returned: a
\* fresh instance, with the fields __init__ gives it, enters run().  The
\* signal dispositions are process-wide: what the first run() registered is
\* still registered, and is now a bound method of the instance that ended.
Restart ==
    /\ pc = "returned" /\ hstack = <<>>
    /\ prev = <<>>
    /\ prev' = Append(prev, [running |-> running, counter |-> counter])
    /\ running' = TRUE
    /\ counter' = 0
    /\ acc' = 0
    /\ remaining' = 0
    /\ pc' = "reg_term"
    /\ handlers' = [s \in Signals |->
                      IF handlers[s] = "signal_handler"
                      THEN "stale_handler" ELSE handlers[s]]
    /\ UNCHANGED <<hstack, log, exitCode, now>>

\* the interpreter calls the handler the ended instance registered for sig
CallStale(sig) ==
    /\ handlers[sig] = "stale_handler"
    /\ NumHandled < MaxSignals
    /\ hstack' = Append(hstack, [at |-> "stale_log", signum |-> sig])
    /\ UNCHANGED <<running, counter, pc, acc, remaining, handlers, log, exitCode, now, prev>>

\* SIGTERM or SIGINT arrives while its disposition is the ended instance's
DeliverStale ==
    /\ pc \in InRun
    /\ \E sig \in Signals : CallStale(sig)

\* signal_handler of the ended instance: logger.info(...)
StaleLog ==
    /\ hstack # <<>> /\ Top.at = "stale_log"
    /\ Emit("INFO", "Received signal", Top.signum)
    /\ hstack' = [hstack EXCEPT ![Len(hstack)].at = "stale_set"]
    /\ UNCHANGED <<running, counter, pc, acc, remaining, handlers, exitCode, now, prev>>

\* signal_handler of the ended instance: self.running = False, and return
StaleSet ==
    /\ hstack # <<>> /\ Top.at = "stale_set"
    /\ prev' = [prev EXCEPT ![Len(prev)].running = FALSE]
    /\ hstack' = Pop
    /\ UNCHANGED <<running, counter, pc, acc, remaining, handlers, log, exitCode, now>>

TwoNext == Next \/ Restart \/ DeliverStale \/ StaleLog \/ StaleSet

\* two fresh instances run one after the other
TwoSpec == Init /\ [][TwoNext]_vars

----------------------------------------------------------------------------
(* Properties *)

\* both signals are routed to signal_handler (lines 46 and 47 have run)
BothRegistered == \A s \in Signals : handlers[s] = "signal_handler"

\* the outermost signal_handler call returns in this step
OuterReturn == hstack # <<>> /\ hstack' = <<>>

\* the positions after the loop has been left
AfterLoop == {"except_kbd", "except_err", "finally", "returned", "exited"}

\* the arguments of the "Application running" records, in order
TickArgs == SelectSeq(log, LAMBDA r : r.msg = "Application running")

\* C1: a signal delivered while run() is suspended in time.sleep(60) cuts the
\* wait short: when its handler returns into the wait, nothing of the
\* interval remains to be waited out and the loop goes on to its exit.
C1_WaitCutShort ==
    [][(pc = "sleep" /\ OuterReturn) => remaining' = 0]_vars

\* C2: once both handlers are registered, every delivery of SIGTERM or SIGINT
\* is handled by signal_handler (never by a default action), and running is
\* false whenever a signal_handler call returns, wherever run() was.
C2_HandlerClearsFlag ==
    [][BothRegistered =>
         /\ pc' \notin {"killed", "propagated"}
         /\ (Len(hstack') < Len(hstack) => ~running')]_vars

\* C2 witness: a handler call has returned into the startup diagnostics
C2_Witness ==
    /\ BothRegistered /\ pc = "env_venv" /\ hstack = <<>>
    /\ ~running /\ Count("Received signal") = 1

\* C3: when the unit of work raises an error on tick N, the loop is never
\* entered again, the counter stays at N, exactly one ERROR record is
\* emitted and run() returns.
C3_ErrorEndsLoop ==
    /\ [][(pc \in AfterLoop) => (counter' = counter /\ pc' \in AfterLoop)]_vars
    /\ \A n \in 0..MaxTicks :
         (pc = "except_err" /\ counter = n /\ Len(TickArgs) = n)
           ~> (pc = "returned" /\ counter = n /\ Len(TickArgs) = n
                 /\ CountLevel("ERROR") = 1)

\* C3 witness: run() has returned after the unit of work failed on tick 2
C3_Witness ==
    /\ pc = "returned" /\ counter = 2
    /\ CountLevel("ERROR") = 1 /\ Len(TickArgs) = 2

\* C4: the counter starts at 0, changes only by the +1 of the tick's store,
\* and always equals the number of increments performed: the k-th tick logs
\* k, whatever handler calls were interleaved with the tick.
C4_CounterExact ==
    /\ counter = 0
    /\ [][(counter' = counter) \/ (counter' = counter + 1 /\ pc = "store")]_vars
    /\ [](/\ counter = Len(TickArgs) + (IF pc = "work" THEN 1 ELSE 0)
          /\ \A k \in DOMAIN TickArgs : TickArgs[k].arg = k)

\* C4 witness: a handler call ran to its end in the middle of the second
\* tick, and the tick's increment was stored
C4_Witness ==
    /\ pc = "work" /\ counter = 2 /\ hstack = <<>>
    /\ ~running /\ Len(TickArgs) = 1
    /\ log[Len(log)].msg = "Received signal"

\* C5: after a signal was delivered with both handlers registered, run()
\* eventually returns, and running is false at that return.
C5_SignalEndsRun ==
    (BothRegistered /\ hstack # <<>>) ~> (pc = "returned" /\ ~running)

\* C5 witness: run() has returned after a signal during the second wait
C5_Witness ==
    /\ pc = "returned" /\ ~running /\ counter = 2
    /\ Count("Received signal") = 1 /\ CountLevel("ERROR") = 0

\* C6: running never goes back from false to true, and once the loop has
\* been left the counter never changes and the loop is never re-entered.
C6_OneWay ==
    [][/\ (~running => ~running')
       /\ (pc \in AfterLoop => (counter' = counter /\ pc' \in AfterLoop))]_vars

\* C6 witness: a second signal was handled after the flag was cleared
C6_Witness ==
    /\ ~running /\ Count("Received signal") = 2 /\ hstack = <<>>
    /\ pc = "returned"

\* C7: between its call and its return signal_handler does nothing but clear
\* the flag: in particular it emits no log record.
C7_HandlerOnlyClearsFlag ==
    [][hstack # <<>> => (log' = log /\ counter' = counter)]_vars

\* C8: a handler call returns to the statement it interrupted with the
\* tick's state intact, so every tick that was started is completed (its
\* record is logged), and the cleanup record is emitted exactly once before
\* run() returns, on every way out of the loop.
C8_Graceful ==
    /\ [][(BothRegistered /\ Len(hstack') < Len(hstack))
            => (pc' = pc /\ acc' = acc /\ counter' = counter)]_vars
    /\ [](/\ Count("App service stopped")
               = (IF pc \in {"returned", "exited"} /\ BothRegistered
                  THEN 1 ELSE 0)
          /\ (pc \in AfterLoop => Len(TickArgs) = counter))

\* C8 witness: run() has returned after a signal interrupted the second
\* tick between its increment and its log record
C8_Witness ==
    /\ pc = "returned" /\ counter = 2 /\ Len(TickArgs) = 2
    /\ Count("App service stopped") = 1
    /\ \E i \in DOMAIN log :
         /\ log[i].msg = "Received signal"
         /\ i < Len(log)
         /\ log[i + 1] = Record("INFO", "Application running", 2)

\* a signal_handler call for sig is active in the wait of tick n
InWait(sig, n) ==
    /\ pc = "sleep" /\ counter = n
    /\ hstack # <<>>
    /\ (IF hstack # <<>> THEN hstack[1].signum = sig ELSE FALSE)

\* run() has returned as after a requested shutdown at tick n
Shutdown(n) ==
    /\ pc = "returned" /\ ~running /\ counter = n
    /\ CountLevel("ERROR") = 0
    /\ Count("Received keyboard interrupt") = 0
    /\ Count("App service stopped") = 1

\* C9: an interrupt (SIGINT) arriving during the wait raises nothing in the
\* wait and ends exactly as SIGTERM does: flag false, no further tick, no
\* error record, the cleanup record, run() returns.
C9_InterruptLikeTerminate ==
    /\ [][pc = "sleep" => pc' \in {"sleep", "check"}]_vars
    /\ \A sig \in Signals : \A n \in 1..MaxTicks :
         InWait(sig, n) ~> Shutdown(n)

\* C9 witness: part of the first wait has passed and the handler called for
\* a SIGINT has logged and is about to clear the flag
C9_Witness ==
    /\ InWait(SIGINT, 1)
    /\ 0 < remaining /\ remaining < Interval
    /\ (IF hstack # <<>> THEN hstack[1].at = "set" ELSE FALSE)

\* C10 as stated: whenever run() has been left and the interpreter has
\* exited, the exit code is 0.
C10_Original == pc = "exited" => exitCode = 0

\* C10 amended: once both handlers are registered, every way out of run()
\* (signal, KeyboardInterrupt, error) ends the process with exit code 0.
C10_ExitZero == (BothRegistered /\ exitCode # -1) => exitCode = 0

\* C10 witness: the process has exited after the unit of work failed
C10_Witness ==
    pc = "exited" /\ CountLevel("ERROR") = 1 /\ exitCode = 0

\* the run loop is at the end of an interval: a wait has run out, or the
\* loop condition is about to be read
AtIntervalEnd == (pc = "sleep" /\ remaining = 0) \/ pc = "check"

\* C11: with no signal and no error, at the moment k whole intervals have
\* been waited since the loop was entered (the k-th wait has run out), the
\* counter equals k; in particular it is 3 after 3 intervals.
C11_CounterPerInterval ==
    (NumHandled = 0 /\ AtIntervalEnd) => now = counter * Interval

\* C11 witness: the third wait has just run out, with no signal so far
C11_Witness ==
    /\ NumHandled = 0 /\ pc = "sleep" /\ remaining = 0
    /\ now = 3 * Interval /\ counter = 3

\* C13: a signal_handler call never changes the counter, and the statements
\* of the loop body never change the flag.
C13_DisjointWriters ==
    [][/\ (hstack # <<>> => counter' = counter)
       /\ ((hstack = <<>> /\ pc \in InTry) => running' = running)]_vars

\* C13 witness: the loop body has written the counter twice and a handler
\* call has written the flag
C13_Witness ==
    /\ pc = "sleep" /\ counter = 2 /\ ~running /\ hstack = <<>>
    /\ Len(TickArgs) = 2 /\ remaining = Interval

\* a shutdown was requested or the unit of work raised
Cause ==
    \/ NumHandled > 0
    \/ pc \in {"except_kbd", "except_err", "killed", "propagated"}
    \/ Count("Received keyboard interrupt") > 0
    \/ CountLevel("ERROR") > 0

\* C14: run() returns only after a signal, an interrupt or an error of the
\* unit of work; with none of them the loop goes on, starting tick k when
\* k-1 intervals have passed, up to the bound of the model.
C14_NoSpontaneousReturn ==
    /\ [](pc \in {"finally", "returned"} => Cause)
    /\ [](pc = "work" /\ ~Cause => now = (counter - 1) * Interval)
    /\ <>(Cause \/ (counter = MaxTicks /\ pc = "check"))

\* C14 witness: no cause so far, and the loop has gone as far as the bound
C14_Witness ==
    ~Cause /\ counter = MaxTicks /\ pc = "check" /\ running

\* C15: no tick is performed before both handlers are registered, so that
\* no signal delivered during a tick or a wait takes the default action
\* (terminating the process, or raising KeyboardInterrupt in the loop).
C15_RegisteredBeforeRunning ==
    /\ [](~BothRegistered => (counter = 0 /\ pc \notin InTry))
    /\ [][(pc \in InTry) =>
            /\ pc' \notin {"killed", "propagated"}
            /\ (pc' = "except_kbd" => pc = "logic")]_vars

\* C15 witness: a SIGTERM delivered in the first wait is being handled by
\* signal_handler
C15_Witness ==
    /\ pc = "sleep" /\ counter = 1 /\ BothRegistered
    /\ hstack = <<[at |-> "log", signum |-> SIGTERM]>>

\* the positions between the read of the loop condition and the write of
\* the tick's increment
Committed == {"load", "store"}

\* C16: once the flag is false the counter changes at most by the +1 of a
\* tick whose loop-condition check had already passed, and no new tick is
\* begun: at most one unit of work follows the clearing of the flag.
C16_AtMostOneMoreTick ==
    [][~running =>
         /\ (counter' = counter \/ (pc = "store" /\ counter' = counter + 1))
         /\ (pc \notin Committed => pc' \notin Committed)]_vars

\* C16 witness: the flag was cleared after the second loop-condition check
\* and the second tick was still performed
C16_Witness ==
    /\ pc = "logic" /\ counter = 2 /\ ~running /\ hstack = <<>>
    /\ \E i \in DOMAIN log :
         /\ log[i].msg = "Received signal"
         /\ i < Len(log)
         /\ log[i + 1] = Record("INFO", "Application running", 2)

\* the positions from the second registration to the first read of the
\* loop condition
Startup == {"log_start", "env_exec", "env_version", "env_venv", "env_cwd",
            "check"}

\* C17: a signal handled after registration and before the first read of
\* the loop condition ends run() with no tick: it returns with counter 0,
\* the cleanup record and no ERROR record.
C17_SignalAtStartup ==
    (BothRegistered /\ hstack # <<>> /\ pc \in Startup /\ counter = 0)
      ~> (/\ pc = "returned" /\ counter = 0 /\ Len(TickArgs) = 0
          /\ Count("App service stopped") = 1 /\ CountLevel("ERROR") = 0)

\* C17 witness: run() has returned with no tick after a signal at startup
C17_Witness ==
    /\ pc = "returned" /\ counter = 0 /\ Count("Received signal") = 1
    /\ Count("App service stopped") = 1

\* the loop was left through one of the except clauses
ByException ==
    Count("Received keyboard interrupt") + CountLevel("ERROR") > 0

\* C18: the except and finally clauses do not write the flag, and run()
\* returns with running true exactly when the loop was left by an exception
\* and no signal_handler call was made.
C18_ExceptionKeepsFlag ==
    /\ [][(pc \in {"except_kbd", "except_err", "finally"} /\ hstack = <<>>
             /\ hstack' = <<>>) => running' = running]_vars
    /\ [](pc = "returned" =>
            (running <=> (ByException /\ Count("Received signal") = 0)))

\* C18 witness: run() has returned after an error with the flag still true
C18_Witness ==
    /\ pc = "returned" /\ running /\ CountLevel("ERROR") = 1
    /\ Count("Received signal") = 0 /\ counter = 2

\* C12: a second fresh instance behaves as the first did: it starts with
\* running true and counter 0, and every signal it receives is answered as
\* in the first run, by the default action or by a call of the handler of
\* the instance that is running, never by what an earlier instance left
\* registered.
C12_SecondLikeFirst ==
    /\ [](pc = "reg_term" => (running /\ counter = 0))
    /\ [][Len(hstack') > Len(hstack)
            => hstack'[Len(hstack')].at = "log"]_vars

====
